---- MODULE Spec2Model ----
EXTENDS Integers, Sequences, FiniteSets, TLC

(***************************************************************************)
(* A model of 10-K/edgarSECFrontEnd.py: the nine SEC concept fetchers, the *)
(* CIK lookup, and the body of main() that runs on one form submission.    *)
(*                                                                         *)
(* Representation.                                                         *)
(*  - A Python str that the code transforms (the ticker, the CIK) is a     *)
(*    sequence of one-character strings or of digits.                      *)
(*  - A row is a sequence: <<>> for [], <<label>> for a one-element array, *)
(*    <<label, value, form, filed>> for a full row.                        *)
(*  - Facts are integers as the API reports them (USD, shares); the        *)
(*    effective tax rate `val` is in hundredths (21 is 0.21).              *)
(*  - A percentage string "40.0%" is Pct(4000): hundredths of a percent.   *)
(*  - A float holding money is an integer number of cents; "$1.50" in the  *)
(*    comparison table is Usd(150).                                        *)
(*  - round(x, 2) is the nearest hundredth of the exact quotient (ties to  *)
(*    even); the inputs below produce no exact ties, where the binary      *)
(*    double that Python rounds could fall on either side.                 *)
(***************************************************************************)

\* ------------------------------------------------------------------------
\* Bounds of the model
\* ------------------------------------------------------------------------

\* Longest observation list a concept response carries.
MaxObs == 2

\* At most this many of the nine responses of one submission differ from the
\* nominal response (one 10-K observation, nominal value, first filed date).
MaxAnomalies == 2

\* ------------------------------------------------------------------------
\* Program constants
\* ------------------------------------------------------------------------

RowLen == 4
CikWidth == 10
OciPercent == 53
RewardsPercent == 25

None == <<>>

\* ------------------------------------------------------------------------
\* Input universes
\* ------------------------------------------------------------------------

Concepts ==
    << "Revenues", "CostOfRevenue", "GrossProfit",
       "SellingGeneralAndAdministrativeExpense", "InterestExpense",
       "OtherNonoperatingIncomeExpense", "IncomeTaxesPaidNet",
       "EffectiveIncomeTaxRateContinuingOperations",
       "CommonStockSharesOutstanding" >>

ConceptSet == { Concepts[i] : i \in 1..Len(Concepts) }

Forms == { "10-K", "10-Q" }

Filed == { "2024-01-01", "2023-12-31" }

NominalFiled == "2024-01-01"

NominalVal(concept) ==
    CASE concept = "Revenues" -> 1000
      [] concept = "CostOfRevenue" -> 400
      [] concept = "GrossProfit" -> 600
      [] concept = "SellingGeneralAndAdministrativeExpense" -> 250
      [] concept = "InterestExpense" -> 10
      [] concept = "OtherNonoperatingIncomeExpense" -> 5
      [] concept = "IncomeTaxesPaidNet" -> 20
      [] concept = "EffectiveIncomeTaxRateContinuingOperations" -> 21
      [] concept = "CommonStockSharesOutstanding" -> 100

Vals(concept) ==
    { NominalVal(concept) } \cup
    ( CASE concept = "Revenues" -> { 0 }
        [] concept = "SellingGeneralAndAdministrativeExpense" -> { 0 }
        [] concept = "CommonStockSharesOutstanding" -> { 0 }
        [] concept = "OtherNonoperatingIncomeExpense" -> { -7 }
        [] OTHER -> { } )

Observations(concept) == [ val : Vals(concept), form : Forms, filed : Filed ]

ObsLists(concept) ==
    UNION { [ 1..n -> Observations(concept) ] : n \in 0..MaxObs }

\* What one GET of a companyconcept URL can come back with.
FailureKinds == { "timeout", "not_json", "no_unit" }

Responses(concept) ==
    { [ kind |-> k, obs |-> <<>> ] : k \in FailureKinds }
    \cup { [ kind |-> "ok", obs |-> o ] : o \in ObsLists(concept) }

NominalResponse(concept) ==
    [ kind |-> "ok",
      obs |-> << [ val |-> NominalVal(concept), form |-> "10-K",
                   filed |-> NominalFiled ] >> ]

\* ------------------------------------------------------------------------
\* Arithmetic
\* ------------------------------------------------------------------------

Abs(x) == IF x < 0 THEN -x ELSE x

\* round(a * b / d) to the nearest integer, ties to even, for d > 0; a is
\* split first so that the product stays within 32 bits.
RoundMulDiv(a, b, d) ==
    LET q == a \div d
        r == a % d
        n == r * b
        f == q * b + (n \div d)
        m == n % d
    IN  IF 2 * m < d THEN f
        ELSE IF 2 * m > d THEN f + 1
        ELSE IF f % 2 = 0 THEN f ELSE f + 1

Pct(h) == << h, "%" >>

Usd(c) == << "$", c >>

\* ------------------------------------------------------------------------
\* Concept fetchers
\* ------------------------------------------------------------------------

Returned(row) == [ exc |-> "none", row |-> row ]

Raised(e) == [ exc |-> e, row |-> <<>> ]

\* DF[DF["form"] == "10-K"]
Select10K(obs) == SelectSeq(obs, LAMBDA o : o.form = "10-K")

\* .iloc[:1] in place of .iloc[-1:]: the first row if any.
ILocFirst(rows) ==
    IF Len(rows) = 0 THEN <<>>
    ELSE LET o == rows[1] IN << << o.val, o.form, o.filed >> >>

\* DF[["val", "form", "filed"]].iloc[-1:].to_numpy(): the last row if any.
ILocLast(rows) ==
    IF Len(rows) = 0 THEN <<>>
    ELSE LET o == rows[Len(rows)] IN << << o.val, o.form, o.filed >> >>

\* np.insert(row, 0, label) without an axis: the array is flattened first.
NpInsert0(rows, label) ==
    << label >> \o (IF Len(rows) = 0 THEN <<>> ELSE rows[1])

\* The body of the try block every fetcher shares: the GET, the JSON
\* decoding, the unit key, the 10-K filter and the labelled row.
MostRecent10K(resp, label) ==
    CASE resp.kind = "timeout" -> Raised("ConnectionError")
      [] resp.kind = "not_json" -> Raised("JSONDecodeError")
      [] resp.kind = "no_unit" -> Raised("KeyError")
      [] OTHER ->
            \* a frame built from an empty list has no "form" column
            IF Len(resp.obs) = 0 THEN Raised("KeyError")
            ELSE Returned(NpInsert0(ILocLast(Select10K(resp.obs)), label))

\* A handler that names one exception type lets the others through.
TryExceptKeyErrorOnly(r) ==
    IF r.exc = "KeyError" THEN Returned(<<>>) ELSE r

\* except Exception: return []
TryExcept(r) == IF r.exc # "none" THEN Returned(<<>>) ELSE r

getRevenue(resp) == TryExcept(MostRecent10K(resp, "Revenue"))

getCostRevenue(resp) == TryExcept(MostRecent10K(resp, "Cost Of Revenue"))

getGrossProfit(resp) == TryExcept(MostRecent10K(resp, "Gross Profit"))

getSGA(resp) ==
    TryExcept(MostRecent10K(resp, "Selling, General & Admin Costs"))

getInterestExpense(resp) ==
    TryExcept(MostRecent10K(resp, "Interest Expense"))

\* The same fetcher with the value left as reported: no abs().
getIncomeExpenseSigned(resp) ==
    TryExcept(
        LET r == MostRecent10K(resp,
                               "Other Nonoperating Income (Expense), net")
        IN  IF r.exc # "none" THEN r
            ELSE IF Len(r.row) < 2 THEN Raised("IndexError")
            ELSE r)

\* row[1] = abs(row[1]); an array of one element has no index 1.
getIncomeExpense(resp) ==
    TryExcept(
        LET r == MostRecent10K(resp,
                               "Other Nonoperating Income (Expense), net")
        IN  IF r.exc # "none" THEN r
            ELSE IF Len(r.row) < 2 THEN Raised("IndexError")
            ELSE Returned([ r.row EXCEPT ![2] = Abs(@) ]))

getIncomeTax(resp) ==
    TryExcept(MostRecent10K(resp, "Income Taxes Paid, Net"))

\* str(v * 100) + "%": v in hundredths is v percent, v * 100 hundredths of one.
TaxRateString(v) == Pct(v * 100)

\* row[1] = str(row[1]*100) + "%"
getTaxRate(resp) ==
    TryExcept(
        LET r == MostRecent10K(resp, "Effective Tax Rate")
        IN  IF r.exc # "none" THEN r
            ELSE IF Len(r.row) < 2 THEN Raised("IndexError")
            ELSE Returned([ r.row EXCEPT ![2] = TaxRateString(@) ]))

getShares(resp) ==
    TryExcept(MostRecent10K(resp, "Common Stock Shares Outstanding"))

\* The fetcher main() calls for each concept.
Fetcher(concept, resp) ==
    CASE concept = "Revenues" -> getRevenue(resp)
      [] concept = "CostOfRevenue" -> getCostRevenue(resp)
      [] concept = "GrossProfit" -> getGrossProfit(resp)
      [] concept = "SellingGeneralAndAdministrativeExpense" -> getSGA(resp)
      [] concept = "InterestExpense" -> getInterestExpense(resp)
      [] concept = "OtherNonoperatingIncomeExpense" -> getIncomeExpense(resp)
      [] concept = "IncomeTaxesPaidNet" -> getIncomeTax(resp)
      [] concept = "EffectiveIncomeTaxRateContinuingOperations" ->
            getTaxRate(resp)
      [] concept = "CommonStockSharesOutstanding" -> getShares(resp)

\* len(row) == 4: main()'s test for a present fact.
IsPresent(row) == Len(row) = RowLen

\* ------------------------------------------------------------------------
\* Ticker clean-up and CIK lookup
\* ------------------------------------------------------------------------

IsSpace(ch) == ch = " "

\* str.strip()
RECURSIVE LStrip(_)
LStrip(s) ==
    IF Len(s) > 0 /\ IsSpace(s[1]) THEN LStrip(Tail(s)) ELSE s

RECURSIVE RStrip(_)
RStrip(s) ==
    IF Len(s) > 0 /\ IsSpace(s[Len(s)])
    THEN RStrip(SubSeq(s, 1, Len(s) - 1)) ELSE s

Strip(s) == RStrip(LStrip(s))

UpperChar(ch) ==
    CASE ch = "a" -> "A"
      [] ch = "b" -> "B"
      [] ch = "c" -> "C"
      [] ch = "d" -> "D"
      [] ch = "x" -> "X"
      [] ch = "y" -> "Y"
      [] OTHER -> ch

\* str.upper()
Upper(s) == [ i \in 1..Len(s) |-> UpperChar(s[i]) ]

\* str(n) for n >= 0, digit by digit
RECURSIVE Str(_)
Str(n) == IF n < 10 THEN << n >> ELSE Str(n \div 10) \o << n % 10 >>

\* str.zfill(width)
ZFill(s, width) ==
    IF Len(s) >= width THEN s
    ELSE [ i \in 1..(width - Len(s)) |-> 0 ] \o s

\* company_tickers.json as the SEC serves it: cik_str is a number there.
CompanyTickers ==
    << [ cik_str |-> 320193, ticker |-> << "A", "B" >> ],
       [ cik_str |-> 789019, ticker |-> << "C", "D" >> ],
       [ cik_str |-> 1045810, ticker |-> << "a", "b" >> ] >>

CikResponses ==
    { [ kind |-> "timeout", data |-> <<>> ],
      [ kind |-> "not_json", data |-> <<>> ],
      [ kind |-> "ok", data |-> <<>> ],
      [ kind |-> "ok", data |-> CompanyTickers ] }

\* result.iloc[0] with the ticker filter left out
getCIKFirstEntry(ticker, resp) ==
    CASE resp.kind = "timeout" -> [ exc |-> "ConnectionError", cik |-> None ]
      [] resp.kind = "not_json" -> [ exc |-> "JSONDecodeError", cik |-> None ]
      [] OTHER ->
            IF Len(resp.data) = 0
            THEN [ exc |-> "KeyError", cik |-> None ]
            ELSE [ exc |-> "none",
                   cik |-> ZFill(Str(resp.data[1].cik_str), CikWidth) ]

getCIK(ticker, resp) ==
    CASE resp.kind = "timeout" -> [ exc |-> "ConnectionError", cik |-> None ]
      [] resp.kind = "not_json" -> [ exc |-> "JSONDecodeError", cik |-> None ]
      [] OTHER ->
            \* an empty frame has no 'cik_str' column
            IF Len(resp.data) = 0
            THEN [ exc |-> "KeyError", cik |-> None ]
            ELSE LET result ==
                         SelectSeq(resp.data,
                             LAMBDA e : Upper(e.ticker) = Upper(ticker))
                 IN  [ exc |-> "none",
                       cik |-> IF Len(result) > 0
                               THEN ZFill(Str(result[1].cik_str), CikWidth)
                               ELSE None ]

\* What the user types into the form.
UserInputs == { <<>>, << " " >>, << " ", "a", "B", " " >>, << "x", "y" >> }

\* Competitor cloud spend, in cents (min_value = 0.0).
Spends == { 1, 100000000 }

\* ------------------------------------------------------------------------
\* Derived metrics of the primary table
\* ------------------------------------------------------------------------

\* A float rounded to two decimals, in hundredths.
Dec2(h) == << h, "e-2" >>

\* round((num / den) * 100, 2) as a percentage string
PercentOf(num, den) == Pct(RoundMulDiv(num, 10000, den))

GrossMarginGate(rev, cost) ==
    IsPresent(rev) /\ IsPresent(cost) /\ rev[4] = cost[4]

GrossMarginRow(rev, cost) ==
    << "Gross Margin", PercentOf(cost[2], rev[2]), rev[3], rev[4] >>

SgaMarginGate(rev, sga) ==
    IsPresent(rev) /\ IsPresent(sga) /\ rev[4] = sga[4]

SgaMarginRow(rev, sga) ==
    << "SGA Percent of Revenue", PercentOf(sga[2], rev[2]), rev[3], rev[4] >>

OperatingProfitGate(profit, sga) ==
    IsPresent(profit) /\ IsPresent(sga) /\ profit[4] = sga[4]

OperatingProfitList(profit, sga) ==
    << "Operating Profit", profit[2] - sga[2], profit[3], profit[4] >>

OperatingMarginGate(rev, op) ==
    IsPresent(rev) /\ IsPresent(op) /\ rev[4] = op[4]

OperatingMarginRow(rev, op) ==
    << "Operating Margin", PercentOf(op[2], rev[2]), rev[3], rev[4] >>

\* The same test with the filed dates left uncompared.
NetIncomeGateNoDates(op, interest, income, tax) ==
    IsPresent(op) /\ IsPresent(interest) /\ IsPresent(income)
    /\ IsPresent(tax)

NetIncomeGate(op, interest, income, tax) ==
    /\ IsPresent(op)
    /\ IsPresent(interest)
    /\ IsPresent(income)
    /\ IsPresent(tax)
    /\ op[4] = interest[4]
    /\ interest[4] = income[4]
    /\ income[4] = tax[4]

\* int(round(float(..) - float(..) - float(..) - float(..), 2)) of integers
NetIncomeVal(op, interest, income, tax) ==
    op[2] - interest[2] - income[2] - tax[2]

\* np.array([...]) turns the value into its decimal string; float() and int()
\* read the same integer back, which is what the row holds here.
NetIncomeRow(op, interest, income, tax) ==
    << "Net Income", NetIncomeVal(op, interest, income, tax), op[3], op[4] >>

IncomeShareGate(shares, ni) ==
    IsPresent(shares) /\ IsPresent(ni) /\ shares[4] = ni[4]

IncomeShareList(shares, ni) ==
    << "Net Income per share - Diluted",
       Dec2(RoundMulDiv(ni[2], 100, shares[2])), shares[3], shares[4] >>

\* display_table.loc[len(display_table)] = row, under `if len(row) == 4`
AddIfPresent(table, row) ==
    IF IsPresent(row) THEN Append(table, row) ELSE table

\* ------------------------------------------------------------------------
\* Competitor comparison table
\* ------------------------------------------------------------------------

\* round(c * 0.53, 2) - round(c * 0.53 * .25, 2), c in cents
OciSpend(c) ==
    RoundMulDiv(c, OciPercent, 100)
    - RoundMulDiv(c, OciPercent * RewardsPercent, 10000)

TechSaved(c) == Abs(OciSpend(c) - c)

SpendTable(c, rev, sga, op, ni, ni_val, eps, shares) ==
    LET oci_spend == OciSpend(c)
        tech_saved == TechSaved(c)
        oci_sga == sga[2] * 100 - tech_saved
        oci_sga_margin == RoundMulDiv(oci_sga, 100, rev[2])
        oci_op_profit == op[2] * 100 - tech_saved
        oci_op_margin == RoundMulDiv(oci_op_profit, 100, rev[2])
        oci_net_income == ni_val * 100 + tech_saved
        oci_income_shares == RoundMulDiv(oci_net_income, 1, shares[2])
        t1 == IF IsPresent(sga)
              THEN << << "% of SGA for Original Tech Spend",
                         Pct(RoundMulDiv(c, 100, sga[2])) >> >>
              ELSE <<>>
        t2 == t1 \o
              << << "OCI Spend (Including Support Rewards)", Usd(oci_spend) >>,
                 << "Amount Saved (Between OCI & Origional Cloud Spend)",
                    Usd(tech_saved) >> >>
        t3 == t2 \o
              (IF IsPresent(sga)
               THEN << << "SGA when Using OCI", Usd(oci_sga) >> >>
               ELSE <<>>)
        t4 == t3 \o
              (IF SgaMarginGate(rev, sga)
               THEN << << "SGA percent of Revenue (with OCI)",
                          Pct(oci_sga_margin) >>,
                       << "Change In SGA percent of Revenue",
                          Pct(RoundMulDiv(sga[2], 10000, rev[2])
                              - oci_sga_margin) >> >>
               ELSE <<>>)
        t5 == t4 \o
              (IF IsPresent(op)
               THEN << << "Operating Profit", Usd(oci_sga) >> >>
               ELSE <<>>)
        t6 == t5 \o
              (IF OperatingMarginGate(rev, op)
               THEN << << "Operating Profit Margin (with OCI)",
                          Pct(oci_op_margin) >>,
                       << "Change In Operating Margin",
                          Pct(RoundMulDiv(op[2], 10000, rev[2])
                              - oci_op_margin) >> >>
               ELSE <<>>)
        t7 == t6 \o
              (IF IsPresent(ni)
               THEN << << "Net Income (with OCI)", Usd(oci_net_income) >> >>
               ELSE <<>>)
        t8 == t7 \o
              (IF IsPresent(eps)
               THEN << << "Net Income per share - Diluted (with OCI)",
                          Usd(oci_income_shares) >>,
                       << "Net Income per share - Diluted (change)",
                          Usd(Abs(RoundMulDiv(ni_val, 100, shares[2])
                                  - oci_income_shares)) >> >>
               ELSE <<>>)
    IN  IF IsPresent(sga) /\ sga[2] = 0
        THEN [ exc |-> "ZeroDivisionError", rows |-> <<>> ]
        ELSE IF SgaMarginGate(rev, sga) /\ rev[2] = 0
        THEN [ exc |-> "ZeroDivisionError", rows |-> t3 ]
        ELSE IF OperatingMarginGate(rev, op) /\ rev[2] = 0
        THEN [ exc |-> "ZeroDivisionError", rows |-> t5 ]
        ELSE IF IsPresent(eps) /\ shares[2] = 0
        THEN [ exc |-> "ZeroDivisionError", rows |-> t7 ]
        ELSE [ exc |-> "none", rows |-> t8 ]

\* ------------------------------------------------------------------------
\* State
\* ------------------------------------------------------------------------

VARIABLES
    pc,                     \* where main() stands in the current run
    user_input,             \* the Ticker field
    competitor_cloud_spend, \* the spend field, in cents
    clean,                  \* user_input.strip().upper()
    cik,
    revenue_row, cost_row, profit_row, sga_row, interest_row, income_row,
    income_tax_row, tax_row, shares_row,
    operating_profit_list, net_income_row, net_income_val, income_share_list,
    display_table,          \* rows of the primary table
    spend_table,            \* rows of the comparison table
    ui,                     \* what Streamlit was told to show, in order
    requests,               \* the GETs issued, in order
    raised,                 \* the exception that left main(), or "none"
    anomalies,              \* non-nominal concept responses seen in this run
    fetch_pc, fetch_concept, fetch_resp, fetch_out
                            \* one fetcher call on its own (SpecFetch)

fetchVars == << fetch_pc, fetch_concept, fetch_resp, fetch_out >>

inputVars == << user_input, competitor_cloud_spend, clean >>

factVars ==
    << revenue_row, cost_row, profit_row, sga_row, interest_row, income_row,
       income_tax_row, tax_row, shares_row >>

derivedVars ==
    << operating_profit_list, net_income_row, net_income_val,
       income_share_list >>

mainVars ==
    << pc, inputVars, cik, factVars, derivedVars, display_table, spend_table,
       ui, requests, raised, anomalies >>

vars == << mainVars, fetchVars >>

InitMain ==
    /\ pc = "form"
    /\ user_input = <<>>
    /\ competitor_cloud_spend = 0
    /\ clean = <<>>
    /\ cik = None
    /\ revenue_row = <<>>
    /\ cost_row = <<>>
    /\ profit_row = <<>>
    /\ sga_row = <<>>
    /\ interest_row = <<>>
    /\ income_row = <<>>
    /\ income_tax_row = <<>>
    /\ tax_row = <<>>
    /\ shares_row = <<>>
    /\ operating_profit_list = <<>>
    /\ net_income_row = <<>>
    /\ net_income_val = 0
    /\ income_share_list = <<>>
    /\ display_table = <<>>
    /\ spend_table = <<>>
    /\ ui = <<>>
    /\ requests = <<>>
    /\ raised = "none"
    /\ anomalies = 0

IdleFetch ==
    /\ fetch_pc = "idle"
    /\ fetch_concept = "none"
    /\ fetch_resp = [ kind |-> "none", obs |-> <<>> ]
    /\ fetch_out = Returned(<<>>)

Init == InitMain /\ IdleFetch

\* ------------------------------------------------------------------------
\* main(): one run of the script on a form submission
\* ------------------------------------------------------------------------

\* The response to the GET for `concept`, within the anomaly budget.
Answers(concept) ==
    { resp \in Responses(concept) :
        resp = NominalResponse(concept) \/ anomalies < MaxAnomalies }

Counted(concept, resp) ==
    IF resp = NominalResponse(concept) THEN anomalies ELSE anomalies + 1

\* if submitted: clean = user_input.strip().upper(); if clean: ... else: ...
Submit ==
    /\ pc = "form"
    /\ \E t \in UserInputs, c \in Spends :
        /\ user_input' = t
        /\ competitor_cloud_spend' = c
        /\ clean' = Upper(Strip(t))
        /\ IF Len(Upper(Strip(t))) > 0
           THEN /\ pc' = "getCIK"
                /\ ui' = ui
           ELSE /\ pc' = "done"
                /\ ui' = Append(ui, "warning: Please enter a non-empty ticker.")
    /\ UNCHANGED << cik, factVars, derivedVars, display_table, spend_table,
                    requests, raised, anomalies, fetchVars >>

\* try: cik = getCIK(clean) except: st.error; cik = None.  if cik: ... else: ...
LookupCIK ==
    /\ pc = "getCIK"
    /\ \E resp \in CikResponses :
        LET r == getCIK(clean, resp)
            found == IF r.exc = "none" THEN r.cik ELSE None
            ui1 == IF r.exc = "none" THEN ui
                   ELSE Append(ui, "error: Error looking up CIK")
        IN  /\ requests' = Append(requests, "company_tickers")
            /\ cik' = found
            /\ IF Len(found) > 0
               THEN /\ pc' = "getRevenue"
                    /\ ui' = ui1 \o << "success: Ticker", "text_input: CIK" >>
               ELSE /\ pc' = "done"
                    /\ ui' = ui1 \o << "warning: Ticker not found.",
                                       "text_input: Not found" >>
    /\ UNCHANGED << inputVars, factVars, derivedVars, display_table,
                    spend_table, raised, anomalies, fetchVars >>

\* revenue_row = getRevenue(cik) and its row
GetRevenue ==
    /\ pc = "getRevenue"
    /\ \E resp \in Answers("Revenues") :
        LET r == getRevenue(resp)
        IN  /\ requests' = Append(requests, "Revenues")
            /\ anomalies' = Counted("Revenues", resp)
            /\ IF r.exc # "none"
               THEN /\ raised' = r.exc
                    /\ pc' = "crashed"
                    /\ UNCHANGED << revenue_row, display_table >>
               ELSE /\ revenue_row' = r.row
                    /\ display_table' = AddIfPresent(display_table, r.row)
                    /\ pc' = "getCostRevenue"
                    /\ raised' = raised
    /\ UNCHANGED << inputVars, cik, cost_row, profit_row, sga_row,
                    interest_row, income_row, income_tax_row, tax_row,
                    shares_row, derivedVars, spend_table, ui, fetchVars >>

\* cost_row = getCostRevenue(cik), its row, and Gross Margin
GetCostRevenue ==
    /\ pc = "getCostRevenue"
    /\ \E resp \in Answers("CostOfRevenue") :
        LET r == getCostRevenue(resp)
            t1 == AddIfPresent(display_table, r.row)
        IN  /\ requests' = Append(requests, "CostOfRevenue")
            /\ anomalies' = Counted("CostOfRevenue", resp)
            /\ IF r.exc # "none"
               THEN /\ raised' = r.exc
                    /\ pc' = "crashed"
                    /\ UNCHANGED << cost_row, display_table >>
               ELSE IF GrossMarginGate(revenue_row, r.row)
                       /\ revenue_row[2] = 0
               THEN /\ raised' = "ZeroDivisionError"
                    /\ pc' = "crashed"
                    /\ cost_row' = r.row
                    /\ display_table' = t1
               ELSE /\ cost_row' = r.row
                    /\ display_table' =
                          IF GrossMarginGate(revenue_row, r.row)
                          THEN Append(t1, GrossMarginRow(revenue_row, r.row))
                          ELSE t1
                    /\ pc' = "getGrossProfit"
                    /\ raised' = raised
    /\ UNCHANGED << inputVars, cik, revenue_row, profit_row, sga_row,
                    interest_row, income_row, income_tax_row, tax_row,
                    shares_row, derivedVars, spend_table, ui, fetchVars >>

\* profit_row = getGrossProfit(cik) and its row
GetGrossProfit ==
    /\ pc = "getGrossProfit"
    /\ \E resp \in Answers("GrossProfit") :
        LET r == getGrossProfit(resp)
        IN  /\ requests' = Append(requests, "GrossProfit")
            /\ anomalies' = Counted("GrossProfit", resp)
            /\ IF r.exc # "none"
               THEN /\ raised' = r.exc
                    /\ pc' = "crashed"
                    /\ UNCHANGED << profit_row, display_table >>
               ELSE /\ profit_row' = r.row
                    /\ display_table' = AddIfPresent(display_table, r.row)
                    /\ pc' = "getSGA"
                    /\ raised' = raised
    /\ UNCHANGED << inputVars, cik, revenue_row, cost_row, sga_row,
                    interest_row, income_row, income_tax_row, tax_row,
                    shares_row, derivedVars, spend_table, ui, fetchVars >>

\* sga_row = getSGA(cik), its row, SGA Percent of Revenue, Operating Profit
\* and Operating Margin
GetSGA ==
    /\ pc = "getSGA"
    /\ \E resp \in Answers("SellingGeneralAndAdministrativeExpense") :
        LET r == getSGA(resp)
            t1 == AddIfPresent(display_table, r.row)
            t2 == IF SgaMarginGate(revenue_row, r.row)
                  THEN Append(t1, SgaMarginRow(revenue_row, r.row))
                  ELSE t1
            op == IF OperatingProfitGate(profit_row, r.row)
                  THEN OperatingProfitList(profit_row, r.row)
                  ELSE <<>>
            t3 == AddIfPresent(t2, op)
        IN  /\ requests' =
                  Append(requests, "SellingGeneralAndAdministrativeExpense")
            /\ anomalies' =
                  Counted("SellingGeneralAndAdministrativeExpense", resp)
            /\ IF r.exc # "none"
               THEN /\ raised' = r.exc
                    /\ pc' = "crashed"
                    /\ UNCHANGED << sga_row, operating_profit_list,
                                    display_table >>
               ELSE IF SgaMarginGate(revenue_row, r.row) /\ revenue_row[2] = 0
               THEN /\ raised' = "ZeroDivisionError"
                    /\ pc' = "crashed"
                    /\ sga_row' = r.row
                    /\ display_table' = t1
                    /\ UNCHANGED operating_profit_list
               ELSE IF OperatingMarginGate(revenue_row, op)
                       /\ revenue_row[2] = 0
               THEN /\ raised' = "ZeroDivisionError"
                    /\ pc' = "crashed"
                    /\ sga_row' = r.row
                    /\ operating_profit_list' = op
                    /\ display_table' = t3
               ELSE /\ sga_row' = r.row
                    /\ operating_profit_list' = op
                    /\ display_table' =
                          IF OperatingMarginGate(revenue_row, op)
                          THEN Append(t3, OperatingMarginRow(revenue_row, op))
                          ELSE t3
                    /\ pc' = "getInterestExpense"
                    /\ raised' = raised
    /\ UNCHANGED << inputVars, cik, revenue_row, cost_row, profit_row,
                    interest_row, income_row, income_tax_row, tax_row,
                    shares_row, net_income_row, net_income_val,
                    income_share_list, spend_table, ui, fetchVars >>

\* interest_row = getInterestExpense(cik) and its row
GetInterestExpense ==
    /\ pc = "getInterestExpense"
    /\ \E resp \in Answers("InterestExpense") :
        LET r == getInterestExpense(resp)
        IN  /\ requests' = Append(requests, "InterestExpense")
            /\ anomalies' = Counted("InterestExpense", resp)
            /\ IF r.exc # "none"
               THEN /\ raised' = r.exc
                    /\ pc' = "crashed"
                    /\ UNCHANGED << interest_row, display_table >>
               ELSE /\ interest_row' = r.row
                    /\ display_table' = AddIfPresent(display_table, r.row)
                    /\ pc' = "getIncomeExpense"
                    /\ raised' = raised
    /\ UNCHANGED << inputVars, cik, revenue_row, cost_row, profit_row,
                    sga_row, income_row, income_tax_row, tax_row, shares_row,
                    derivedVars, spend_table, ui, fetchVars >>

\* income_row = getIncomeExpense(cik) and its row
GetIncomeExpense ==
    /\ pc = "getIncomeExpense"
    /\ \E resp \in Answers("OtherNonoperatingIncomeExpense") :
        LET r == getIncomeExpense(resp)
        IN  /\ requests' = Append(requests, "OtherNonoperatingIncomeExpense")
            /\ anomalies' = Counted("OtherNonoperatingIncomeExpense", resp)
            /\ IF r.exc # "none"
               THEN /\ raised' = r.exc
                    /\ pc' = "crashed"
                    /\ UNCHANGED << income_row, display_table >>
               ELSE /\ income_row' = r.row
                    /\ display_table' = AddIfPresent(display_table, r.row)
                    /\ pc' = "getIncomeTax"
                    /\ raised' = raised
    /\ UNCHANGED << inputVars, cik, revenue_row, cost_row, profit_row,
                    sga_row, interest_row, income_tax_row, tax_row,
                    shares_row, derivedVars, spend_table, ui, fetchVars >>

\* income_tax_row = getIncomeTax(cik) and its row
GetIncomeTax ==
    /\ pc = "getIncomeTax"
    /\ \E resp \in Answers("IncomeTaxesPaidNet") :
        LET r == getIncomeTax(resp)
        IN  /\ requests' = Append(requests, "IncomeTaxesPaidNet")
            /\ anomalies' = Counted("IncomeTaxesPaidNet", resp)
            /\ IF r.exc # "none"
               THEN /\ raised' = r.exc
                    /\ pc' = "crashed"
                    /\ UNCHANGED << income_tax_row, display_table >>
               ELSE /\ income_tax_row' = r.row
                    /\ display_table' = AddIfPresent(display_table, r.row)
                    /\ pc' = "getTaxRate"
                    /\ raised' = raised
    /\ UNCHANGED << inputVars, cik, revenue_row, cost_row, profit_row,
                    sga_row, interest_row, income_row, tax_row, shares_row,
                    derivedVars, spend_table, ui, fetchVars >>

\* tax_row = getTaxRate(cik), its row, and Net Income
GetTaxRate ==
    /\ pc = "getTaxRate"
    /\ \E resp \in Answers("EffectiveIncomeTaxRateContinuingOperations") :
        LET r == getTaxRate(resp)
            t1 == AddIfPresent(display_table, r.row)
            gate == NetIncomeGate(operating_profit_list, interest_row,
                                  income_row, income_tax_row)
        IN  /\ requests' =
                  Append(requests, "EffectiveIncomeTaxRateContinuingOperations")
            /\ anomalies' =
                  Counted("EffectiveIncomeTaxRateContinuingOperations", resp)
            /\ IF r.exc # "none"
               THEN /\ raised' = r.exc
                    /\ pc' = "crashed"
                    /\ UNCHANGED << tax_row, net_income_row, net_income_val,
                                    display_table >>
               ELSE /\ tax_row' = r.row
                    /\ net_income_val' =
                          IF gate
                          THEN NetIncomeVal(operating_profit_list,
                                            interest_row, income_row,
                                            income_tax_row)
                          ELSE net_income_val
                    /\ net_income_row' =
                          IF gate
                          THEN NetIncomeRow(operating_profit_list,
                                            interest_row, income_row,
                                            income_tax_row)
                          ELSE <<>>
                    /\ display_table' =
                          IF gate
                          THEN Append(t1,
                                   NetIncomeRow(operating_profit_list,
                                                interest_row, income_row,
                                                income_tax_row))
                          ELSE t1
                    /\ pc' = "getShares"
                    /\ raised' = raised
    /\ UNCHANGED << inputVars, cik, revenue_row, cost_row, profit_row,
                    sga_row, interest_row, income_row, income_tax_row,
                    shares_row, operating_profit_list, income_share_list,
                    spend_table, ui, fetchVars >>

\* shares_row = getShares(cik), its row, Net Income per share, and
\* st.table(display_table)
GetShares ==
    /\ pc = "getShares"
    /\ \E resp \in Answers("CommonStockSharesOutstanding") :
        LET r == getShares(resp)
            t1 == AddIfPresent(display_table, r.row)
            gate == IncomeShareGate(r.row, net_income_row)
        IN  /\ requests' = Append(requests, "CommonStockSharesOutstanding")
            /\ anomalies' = Counted("CommonStockSharesOutstanding", resp)
            /\ IF r.exc # "none"
               THEN /\ raised' = r.exc
                    /\ pc' = "crashed"
                    /\ UNCHANGED << shares_row, income_share_list,
                                    display_table, ui >>
               ELSE IF gate /\ r.row[2] = 0
               THEN /\ raised' = "ZeroDivisionError"
                    /\ pc' = "crashed"
                    /\ shares_row' = r.row
                    /\ display_table' = t1
                    /\ UNCHANGED << income_share_list, ui >>
               ELSE /\ shares_row' = r.row
                    /\ income_share_list' =
                          IF gate THEN IncomeShareList(r.row, net_income_row)
                          ELSE <<>>
                    /\ display_table' =
                          IF gate
                          THEN Append(t1,
                                   IncomeShareList(r.row, net_income_row))
                          ELSE t1
                    /\ ui' = Append(ui, "table: primary")
                    /\ pc' = "spend"
                    /\ raised' = raised
    /\ UNCHANGED << inputVars, cik, revenue_row, cost_row, profit_row,
                    sga_row, interest_row, income_row, income_tax_row,
                    tax_row, operating_profit_list, net_income_row,
                    net_income_val, spend_table, fetchVars >>

\* The comparison table and st.table(spend_table)
RenderSpend ==
    /\ pc = "spend"
    /\ LET t == SpendTable(competitor_cloud_spend, revenue_row, sga_row,
                           operating_profit_list, net_income_row,
                           net_income_val, income_share_list, shares_row)
       IN  /\ spend_table' = t.rows
           /\ IF t.exc # "none"
              THEN /\ raised' = t.exc
                   /\ pc' = "crashed"
                   /\ ui' = ui
              ELSE /\ raised' = raised
                   /\ pc' = "done"
                   /\ ui' = Append(ui, "table: spend")
    /\ UNCHANGED << inputVars, cik, factVars, derivedVars, display_table,
                    requests, anomalies, fetchVars >>

\* Streamlit runs the script afresh for the next submission.
Rerun ==
    /\ pc \in { "done", "crashed" }
    /\ pc' = "form"
    /\ user_input' = <<>>
    /\ competitor_cloud_spend' = 0
    /\ clean' = <<>>
    /\ cik' = None
    /\ revenue_row' = <<>>
    /\ cost_row' = <<>>
    /\ profit_row' = <<>>
    /\ sga_row' = <<>>
    /\ interest_row' = <<>>
    /\ income_row' = <<>>
    /\ income_tax_row' = <<>>
    /\ tax_row' = <<>>
    /\ shares_row' = <<>>
    /\ operating_profit_list' = <<>>
    /\ net_income_row' = <<>>
    /\ net_income_val' = 0
    /\ income_share_list' = <<>>
    /\ display_table' = <<>>
    /\ spend_table' = <<>>
    /\ ui' = <<>>
    /\ requests' = <<>>
    /\ raised' = "none"
    /\ anomalies' = 0
    /\ UNCHANGED fetchVars

Next ==
    \/ Submit
    \/ LookupCIK
    \/ GetRevenue
    \/ GetCostRevenue
    \/ GetGrossProfit
    \/ GetSGA
    \/ GetInterestExpense
    \/ GetIncomeExpense
    \/ GetIncomeTax
    \/ GetTaxRate
    \/ GetShares
    \/ RenderSpend
    \/ Rerun

Spec == Init /\ [][Next]_vars

\* ------------------------------------------------------------------------
\* One fetcher call on its own: every concept, every response
\* ------------------------------------------------------------------------

InitFetch ==
    /\ InitMain
    /\ fetch_pc = "call"
    /\ fetch_concept \in ConceptSet
    /\ fetch_resp \in Responses(fetch_concept)
    /\ fetch_out = Returned(<<>>)

CallFetcher ==
    /\ fetch_pc = "call"
    /\ fetch_out' = Fetcher(fetch_concept, fetch_resp)
    /\ fetch_pc' = "returned"
    /\ UNCHANGED << mainVars, fetch_concept, fetch_resp >>

NextFetch == CallFetcher

SpecFetch == InitFetch /\ [][NextFetch]_vars

\* ------------------------------------------------------------------------
\* Properties
\* ------------------------------------------------------------------------

HasRow(table, label) == \E i \in 1..Len(table) : table[i][1] = label

ValueOf(table, label) ==
    table[CHOOSE i \in 1..Len(table) : table[i][1] = label][2]

\* Every row of `rows` is a full row and all carry one filed date.
Aligned(rows) ==
    /\ \A i \in 1..Len(rows) : Len(rows[i]) = 4
    /\ \A i, j \in 1..Len(rows) : rows[i][4] = rows[j][4]

Resolved == Len(cik) > 0

Ended == pc \in { "done", "crashed" }

Requested(concept) == \E i \in 1..Len(requests) : requests[i] = concept

Shown(what) == \E i \in 1..Len(ui) : ui[i] = what

\* C1: a derived metric is in the primary table only if every fact it
\* consumes, directly or through another derived metric, is present and all
\* of them carry one filed date; a metric whose input metric is missing is
\* missing too.
C1_DerivedOnlyIfAligned ==
    /\ HasRow(display_table, "Gross Margin")
          => Aligned(<< revenue_row, cost_row >>)
    /\ HasRow(display_table, "SGA Percent of Revenue")
          => Aligned(<< revenue_row, sga_row >>)
    /\ HasRow(display_table, "Operating Profit")
          => Aligned(<< profit_row, sga_row >>)
    /\ HasRow(display_table, "Operating Margin")
          => /\ HasRow(display_table, "Operating Profit")
             /\ Aligned(<< revenue_row, profit_row, sga_row >>)
    /\ HasRow(display_table, "Net Income")
          => /\ HasRow(display_table, "Operating Profit")
             /\ Aligned(<< profit_row, sga_row, interest_row, income_row,
                           income_tax_row >>)
    /\ HasRow(display_table, "Net Income per share - Diluted")
          => /\ HasRow(display_table, "Net Income")
             /\ Aligned(<< profit_row, sga_row, interest_row, income_row,
                           income_tax_row, shares_row >>)

C1_Witness ==
    /\ pc = "done"
    /\ HasRow(display_table, "Gross Margin")
    /\ HasRow(display_table, "SGA Percent of Revenue")
    /\ HasRow(display_table, "Operating Margin")
    /\ HasRow(display_table, "Net Income per share - Diluted")

\* C2: no exception leaves main(): a submission whose identifier resolved
\* ends with both tables rendered, whatever the fetches returned.
C2_NoExceptionEscapes ==
    /\ raised = "none"
    /\ pc # "crashed"
    /\ (pc = "done" /\ Resolved)
          => Shown("table: primary") /\ Shown("table: spend")

No10K(obs) == \A i \in 1..Len(obs) : obs[i].form # "10-K"

\* C3: a fetcher given a network failure, an undecodable body, a body
\* without the unit key or observations none of which is a 10-K returns,
\* without raising, a result main() does not take for a present fact.
C3_FailureYieldsAbsent ==
    (fetch_pc = "returned"
     /\ (fetch_resp.kind \in FailureKinds \/ No10K(fetch_resp.obs)))
        => /\ fetch_out.exc = "none"
           /\ ~IsPresent(fetch_out.row)

C3_Witness ==
    /\ fetch_pc = "returned"
    /\ fetch_concept = "OtherNonoperatingIncomeExpense"
    /\ fetch_resp.kind = "ok"
    /\ Len(fetch_resp.obs) > 0
    /\ No10K(fetch_resp.obs)
    /\ fetch_out = Returned(<<>>)

InMap(ticker) ==
    \E i \in 1..Len(CompanyTickers) :
        Upper(CompanyTickers[i].ticker) = Upper(ticker)

C5_GrossMarginIff ==
    Requested("CostOfRevenue") =>
        /\ HasRow(display_table, "Gross Margin")
              <=> Aligned(<< revenue_row, cost_row >>)
        /\ HasRow(display_table, "Gross Margin") =>
              \E i \in 1..Len(display_table) :
                  display_table[i] =
                      << "Gross Margin",
                         Pct(RoundMulDiv(cost_row[2], 10000, revenue_row[2])),
                         revenue_row[3], revenue_row[4] >>

\* C6: in a rendered comparison table the figures are re-derived as if the
\* amount saved reduced SG&A: SGA' = SGA - saved, the "Operating Profit" row
\* shows Operating Profit + saved and the margin rows follow from it, Net
\* Income' = Net Income + saved, EPS' = Net Income' / shares.
C6_RederivedFromReducedSga ==
    (pc = "done" /\ Resolved) =>
        LET saved == TechSaved(competitor_cloud_spend)
            op1 == operating_profit_list[2] * 100 + saved
        IN  /\ HasRow(spend_table, "SGA when Using OCI") =>
                  ValueOf(spend_table, "SGA when Using OCI")
                      = Usd(sga_row[2] * 100 - saved)
            /\ HasRow(spend_table, "Operating Profit") =>
                  ValueOf(spend_table, "Operating Profit") = Usd(op1)
            /\ HasRow(spend_table, "Operating Profit Margin (with OCI)") =>
                  ValueOf(spend_table, "Operating Profit Margin (with OCI)")
                      = Pct(RoundMulDiv(op1, 100, revenue_row[2]))
            /\ HasRow(spend_table, "Net Income (with OCI)") =>
                  ValueOf(spend_table, "Net Income (with OCI)")
                      = Usd(net_income_val * 100 + saved)
            /\ HasRow(spend_table,
                      "Net Income per share - Diluted (with OCI)") =>
                  ValueOf(spend_table,
                          "Net Income per share - Diluted (with OCI)")
                      = Usd(RoundMulDiv(net_income_val * 100 + saved, 1,
                                        shares_row[2]))

\* C7: every submission whose identifier resolved ends with the OCI spend
\* row showing 0.53 c - 0.53 * 0.25 c (to the cent) and the amount saved row
\* showing |OCI spend - c|, whichever facts are present.
C7_OciSpendAndSaved ==
    (Ended /\ Resolved) =>
        /\ HasRow(spend_table, "OCI Spend (Including Support Rewards)")
        /\ HasRow(spend_table,
                  "Amount Saved (Between OCI & Origional Cloud Spend)")
        /\ LET exact == RoundMulDiv(competitor_cloud_spend,
                                    OciPercent * (100 - RewardsPercent), 10000)
               shown == ValueOf(spend_table,
                                "OCI Spend (Including Support Rewards)")
           IN  /\ shown = Usd(exact)
               /\ ValueOf(spend_table,
                      "Amount Saved (Between OCI & Origional Cloud Spend)")
                    = Usd(Abs(exact - competitor_cloud_spend))

\* C8: every submission whose identifier resolved ends having requested the
\* lookup and then each of the nine concepts once, in the fixed order, with
\* every present fact in the primary table.
C8_AllNineRequestedInOrder ==
    (Ended /\ Resolved) =>
        /\ requests = << "company_tickers" >> \o Concepts
        /\ \A row \in { revenue_row, cost_row, profit_row, sga_row,
                        interest_row, income_row, income_tax_row, tax_row,
                        shares_row } :
              IsPresent(row) =>
                  \E i \in 1..Len(display_table) : display_table[i][1] = row[1]

\* The last observation, in the response's own order, whose form is "10-K".
Last10K(obs) ==
    obs[CHOOSE i \in 1..Len(obs) :
            /\ obs[i].form = "10-K"
            /\ \A j \in (i + 1)..Len(obs) : obs[j].form # "10-K"]

C10_FullOrEmpty ==
    fetch_pc = "returned" =>
        /\ Len(fetch_out.row) \in { 0, 4 }
        /\ No10K(fetch_resp.obs) => fetch_out.row = <<>>

\* C11: whenever the Net Income row is in the primary table, its value is the
\* integer Operating Profit - Interest Expense - Other Nonoperating Income
\* (Expense) - Income Taxes Paid, where Operating Profit is Gross Profit -
\* SG&A and the Other Nonoperating term is the fetched row's value after
\* abs(), never negative; the row carries Operating Profit's form and filed
\* date.
C11_NetIncomeValue ==
    HasRow(display_table, "Net Income") =>
        /\ IsPresent(profit_row) /\ IsPresent(sga_row)
        /\ IsPresent(interest_row) /\ IsPresent(income_row)
        /\ IsPresent(income_tax_row)
        /\ operating_profit_list =
              << "Operating Profit", profit_row[2] - sga_row[2],
                 profit_row[3], profit_row[4] >>
        /\ income_row[2] >= 0
        /\ net_income_val =
              (profit_row[2] - sga_row[2]) - interest_row[2]
                  - income_row[2] - income_tax_row[2]
        /\ net_income_row =
              << "Net Income", net_income_val, operating_profit_list[3],
                 operating_profit_list[4] >>
        /\ \E i \in 1..Len(display_table) :
              display_table[i] = net_income_row

\* Net Income computed from a reported Other Nonoperating value of -7:
\* (600 - 250) - 10 - 7 - 20 = 313, with Operating Profit's form and date.
C11_Witness ==
    /\ pc = "done"
    /\ income_row =
          << "Other Nonoperating Income (Expense), net", 7, "10-K",
             "2024-01-01" >>
    /\ operating_profit_list =
          << "Operating Profit", 350, "10-K", "2024-01-01" >>
    /\ \E i \in 1..Len(display_table) :
          display_table[i] = << "Net Income", 313, "10-K", "2024-01-01" >>

====
